---- MODULE Spec2Model ----
(***************************************************************************)
(* Session registry, request router and shutdown coordinator of the        *)
(* backwards compatible MCP server (src/src/server.ts).                    *)
(*                                                                         *)
(* Node runs the handlers on one thread: the code between two awaits is    *)
(* one atomic step, and every await is a point where any other handler     *)
(* may run.  Each action below is one such step.                           *)
(***************************************************************************)
EXTENDS Integers, Sequences, FiniteSets

\* Number of transports the model lets the server construct (and the size
\* of the pool of session ids the generator draws from).
MaxSessions ==
  2

\* JavaScript's undefined: the result of an absent key, and the sessionId of
\* a Streamable transport that has not handled its initialization yet.
Undefined ==
  0

\* The value of a property the registry object inherits from
\* Object.prototype (transports["constructor"]): truthy, and an instance of
\* neither transport class.
Inherited ==
  -1

\* A request that carries no session id (no mcp-session-id header, no
\* sessionId query parameter).
NoSid ==
  0

\* A session id that names an inherited property of the registry object.
ProtoKey ==
  -1

\* Number of pending requests that will reject the model follows at a time.
MaxPending ==
  1

\* Number of termination signals the model lets the process receive.
MaxSignals ==
  2

\* Number of events the model lets one store hold.
MaxEvents ==
  3

\* The exit status of a process that has not exited.
NotExited ==
  -1

\* The ids randomUUID can return.
Uuids ==
  1..MaxSessions

\* The session ids a client can send.
SidVals ==
  {NoSid, ProtoKey} \cup Uuids

Methods ==
  {"POST", "GET", "DELETE"}

\* req.query.token: absent, the empty string, or a non-empty string.
TokenVals ==
  {"absent", "empty", "abc"}

VARIABLES
  transports,  \* the registry: the own properties of the object, in insertion order
  objs,        \* the transport instances constructed so far, by allocation index
  sd,          \* the SIGINT handler: its runs, each with its keys and loop index
  last,        \* the answer the router gave in the step that led here, if any
  rm,          \* the removals from the registry that step ran, in order
  hist,        \* history: ids issued, ids terminated by a client, first registrations
  es,          \* the event stores constructed so far: the log of each
  pend         \* the /mcp requests whose handleRequest is pending and will reject

vars ==
  <<transports, objs, sd, last, rm, hist, es, pend>>

----------------------------------------------------------------------------
\* The registry object: const transports: Record<string, ...> = {}

Keys(reg) ==
  {reg[i].id : i \in 1..Len(reg)}

KeySeq(reg) ==
  [i \in 1..Len(reg) |-> reg[i].id]

Has(reg, id) ==
  \E i \in 1..Len(reg) : reg[i].id = id

Own(reg, id) ==
  (CHOOSE i \in 1..Len(reg) : reg[i].id = id)

\* transports[sid]: the own property, else the inherited one, else undefined.
Lookup(reg, sid) ==
  IF Has(reg, sid) THEN reg[Own(reg, sid)].t
  ELSE IF sid = ProtoKey THEN Inherited
  ELSE Undefined

\* Mutant: the callback stores nothing.
PutNothing(reg, id, t) ==
  reg

\* transports[id] = t: an existing key keeps its place and takes the new value.
Put(reg, id, t) ==
  IF Has(reg, id)
    THEN [reg EXCEPT ![Own(reg, id)] = [id |-> id, t |-> t]]
    ELSE Append(reg, [id |-> id, t |-> t])

\* Mutant: removal by position, where the position of an absent key is -1
\* and removes the last entry.
DeleteSplice(reg, id) ==
  IF \E i \in 1..Len(reg) : reg[i].id = id
    THEN SelectSeq(reg, LAMBDA e : e.id # id)
    ELSE SubSeq(reg, 1, Len(reg) - 1)

\* delete transports[id]
Delete(reg, id) ==
  SelectSeq(reg, LAMBDA e : e.id # id)

Truthy(v) ==
  v # Undefined

\* Mutant: any transport found passes, whatever its class.
IsStreamableAny(v) ==
  v \in 1..Len(objs)

\* existingTransport instanceof StreamableHTTPServerTransport
IsStreamable(v) ==
  v \in 1..Len(objs) /\ objs[v].kind = "Streamable"

\* Mutant: a truthiness test in place of the instanceof test.
IsSSETruthy(v) ==
  v # Undefined

\* existingTransport instanceof SSEServerTransport
IsSSE(v) ==
  v \in 1..Len(objs) /\ objs[v].kind = "SSE"

\* Mutant: only an absent token counts as missing (token === undefined).
NoTokenStrict(token) ==
  token = "absent"

\* !token
NoToken(token) ==
  token \in {"absent", "empty"}

----------------------------------------------------------------------------
\* Answers and history

\* What the router did with a request: the status and error it answered
\* with (status 0: the response is left to the transport), and the
\* transport the request was handed to (0: none).
Answer(ep, sid, status, error, to) ==
  [ep |-> ep, sid |-> sid, status |-> status, error |-> error, to |-> to,
   replayed |-> << >>]

\* The step answered no request.
NoAnswer ==
  Answer("none", NoSid, 0, "", 0)

\* One removal: the path that ran it, the id, whether the id was a key
\* when it ran.
Removal(path, id, reg) ==
  [path |-> path, id |-> id, present |-> Has(reg, id)]

NoteRegistered(h, id, t) ==
  [h EXCEPT !.issued = @ \cup {id},
            !.first[id] = IF @ = 0 THEN t ELSE @]

\* The last turn of the event loop is over and its record is cleared:
\* the next handler step can run.
Idle ==
  last = NoAnswer /\ rm = << >>

Running ==
  sd.pc # "exited" /\ Idle

----------------------------------------------------------------------------
\* Transport instances

\* A LegacySSE transport has no event store.
NoStore ==
  0

\* Mutant: one store, constructed once, serves every session.
SharedEventStore(stores) ==
  1

\* const eventStore = new InMemoryEventStore(): a store no transport has.
NewEventStore(stores) ==
  Len(stores) + 1

NewStreamable(store) ==
  [kind |-> "Streamable", sessionId |-> Undefined, bound |-> FALSE,
   wait |-> "connect", closed |-> FALSE, conn |-> "none", del |-> FALSE,
   store |-> store]

NewSSE(id) ==
  [kind |-> "SSE", sessionId |-> id, bound |-> FALSE,
   wait |-> "connect", closed |-> FALSE, conn |-> "open", del |-> FALSE,
   store |-> NoStore]

\* A client has been told the transport's session id: in the response to
\* the initialization it handled (Streamable), in the endpoint event that
\* server.connect has the transport send (LegacySSE).
Told(o) ==
  IF o.kind = "SSE" THEN o.wait = "none" ELSE o.sessionId # Undefined

\* Mutant: the close callback leaves the registry alone.
OnCloseKeeps(reg, t) ==
  reg

\* Mutant: transport is one variable shared by all requests, so the
\* callback reads the session id of the transport constructed last.
OnCloseLatest(reg, t) ==
  LET sid == objs[Len(objs)].sessionId IN
  IF sid # Undefined /\ Truthy(Lookup(reg, sid)) THEN Delete(reg, sid) ELSE reg

\* transport.onclose of a Streamable transport:
\*   const sid = transport.sessionId; if (sid && transports[sid]) delete transports[sid]
OnClose(reg, t) ==
  LET sid == objs[t].sessionId IN
  IF sid # Undefined /\ Truthy(Lookup(reg, sid)) THEN Delete(reg, sid) ELSE reg

----------------------------------------------------------------------------
Init ==
  /\ transports = << >>
  /\ objs = << >>
  /\ sd = [pc |-> "running", runs |-> << >>,
           snap |-> {}, tried |-> {}, failed |-> {}, code |-> NotExited]
  /\ last = NoAnswer
  /\ rm = << >>
  /\ hist = [issued |-> {}, terminated |-> {}, first |-> [id \in Uuids |-> 0]]
  /\ es = << >>
  /\ pend = {}

\* Mutant: the generator can repeat an id.
GenIdsAny(unique) ==
  Uuids

\* randomUUID(): an id no earlier call returned (ids are opaque, so the
\* least unused one stands for any of them), or (unique = FALSE) any id.
GenIds(unique) ==
  IF unique
    THEN {id \in Uuids \ hist.issued : \A o \in Uuids \ hist.issued : id <= o}
    ELSE Uuids

----------------------------------------------------------------------------
\* app.all("/mcp"), up to its first await or its return.

\* The results of transport.handleRequest(req, res, req.body) the handler
\* can tell apart when the turn that made the call ends: the promise has
\* resolved (ok), it has rejected before the response was started (throw)
\* or after (throwSent), or it is pending and rejects in a later turn
\* (later; a promise that is pending and resolves later ends the handler
\* without a trace, as ok does).
Outcomes ==
  {"ok", "throw", "throwSent", "later"}

\* Mutant: the catch block answers 500 without looking at res.headersSent.
CaughtAlways500(ep, sid, outcome, t) ==
  CASE outcome = "ok" -> Answer(ep, sid, 0, "", t)
    [] outcome = "later" -> Answer(ep, sid, 0, "Pending", t)
    [] OTHER -> Answer(ep, sid, 500, "Internal", t)

\* What the handler has written when the turn ends.  The catch block: 500
\* unless the headers are sent.
Caught(ep, sid, outcome, t) ==
  CASE outcome = "ok" -> Answer(ep, sid, 0, "", t)
    [] outcome = "later" -> Answer(ep, sid, 0, "Pending", t)
    [] outcome = "throw" -> Answer(ep, sid, 500, "Internal", t)
    [] OTHER -> Answer(ep, sid, 0, "Absorbed", t)

\* A request handed to transport t whose handleRequest is pending.
Pending(sid, t) ==
  [sid |-> sid, t |-> t]

\* Mutant: the request is handed to the transport an earlier lookup of
\* the id returned, whatever the registry holds by now.
McpReuseOnStale(method, sid, outcome) ==
  LET found == IF sid \in Uuids /\ hist.first[sid] # 0
                 THEN hist.first[sid]
                 ELSE Lookup(transports, sid) IN
  /\ sid # NoSid /\ Truthy(found)
  /\ IF IsStreamable(found)
       THEN /\ outcome = "later" => Cardinality(pend) < MaxPending
            /\ last' = Caught("mcp", sid, outcome, found)
            /\ objs' = IF method = "DELETE" /\ outcome = "ok"
                         THEN [objs EXCEPT ![found].del = TRUE]
                         ELSE objs
            /\ pend' = IF outcome = "later"
                         THEN pend \cup {Pending(sid, found)}
                         ELSE pend
       ELSE /\ last' = Answer("mcp", sid, 400, "WrongTransport", 0)
            /\ objs' = objs
            /\ pend' = pend
  /\ rm' = << >>
  /\ UNCHANGED <<transports, sd, hist, es>>

\* sessionId && transports[sessionId], existingTransport instanceof Streamable...
\* and the call of transport.handleRequest with the given result.  A
\* transport that is handed a DELETE closes itself, inside the call (inside:
\* close() calls transport.onclose before the turn ends) or in a later turn
\* (StreamableClose).
McpReuseOn(method, sid, outcome) ==
  LET found == Lookup(transports, sid) IN
  /\ sid # NoSid /\ Truthy(found)
  /\ IF IsStreamable(found)
       THEN \E inside \in BOOLEAN :
              /\ inside => method = "DELETE" /\ outcome = "ok"
              /\ outcome = "later" => Cardinality(pend) < MaxPending
              /\ last' = Caught("mcp", sid, outcome, found)
              /\ objs' = IF method = "DELETE" /\ outcome = "ok"
                           THEN IF inside
                                  THEN [objs EXCEPT ![found].closed = TRUE]
                                  ELSE [objs EXCEPT ![found].del = TRUE]
                           ELSE objs
              /\ pend' = IF outcome = "later"
                           THEN pend \cup {Pending(sid, found)}
                           ELSE pend
              /\ transports' = IF inside THEN OnClose(transports, found) ELSE transports
              /\ rm' = IF inside
                         THEN <<Removal("onclose", objs[found].sessionId, transports)>>
                         ELSE << >>
              /\ hist' = IF inside
                           THEN [hist EXCEPT !.terminated = @ \cup {objs[found].sessionId}]
                           ELSE hist
       ELSE /\ last' = Answer("mcp", sid, 400, "WrongTransport", 0)
            /\ objs' = objs
            /\ pend' = pend
            /\ transports' = transports
            /\ rm' = << >>
            /\ hist' = hist
  /\ UNCHANGED <<sd, es>>

McpReuse(method, sid) ==
  \E outcome \in Outcomes : McpReuseOn(method, sid, outcome)

\* !sessionId && req.method === "POST" && isInitializeRequest(req.body)
McpInitialize(method, sid, init, token) ==
  /\ ~(sid # NoSid /\ Truthy(Lookup(transports, sid)))
  /\ sid = NoSid /\ method = "POST" /\ init
  /\ IF NoToken(token)
       THEN /\ last' = Answer("mcp", sid, 400, "MissingToken", 0)
            /\ objs' = objs
            /\ es' = es
       ELSE /\ Len(objs) < MaxSessions
            /\ objs' = Append(objs, NewStreamable(NewEventStore(es)))
            /\ es' = IF NewEventStore(es) > Len(es) THEN Append(es, << >>) ELSE es
            /\ last' = NoAnswer
  /\ rm' = << >>
  /\ UNCHANGED <<transports, sd, hist, pend>>

\* else: Bad Request: No valid session ID provided
McpInvalid(method, sid, init) ==
  /\ ~(sid # NoSid /\ Truthy(Lookup(transports, sid)))
  /\ ~(sid = NoSid /\ method = "POST" /\ init)
  /\ last' = Answer("mcp", sid, 400, "InvalidSession", 0)
  /\ rm' = << >>
  /\ UNCHANGED <<transports, objs, sd, hist, es, pend>>

\* The handler on one request.
McpHandler(method, sid, init, token) ==
  /\ Running
  /\ \/ McpReuse(method, sid)
     \/ McpInitialize(method, sid, init, token)
     \/ McpInvalid(method, sid, init)

McpRequest ==
  \E method \in Methods, sid \in SidVals, init \in BOOLEAN, token \in TokenVals :
    McpHandler(method, sid, init, token)

----------------------------------------------------------------------------
\* app.all("/mcp") after await server.connect(transport)

\* Mutant: connect is not awaited: the initialization is handled by a
\* transport whose binding has not completed.
McpInitHandledUnbound(unique, t, outcome, reg) ==
  /\ Running
  /\ t \in 1..Len(objs)
  /\ objs[t].kind = "Streamable" /\ objs[t].wait = "connect"
  /\ outcome = "later" => Cardinality(pend) < MaxPending
  /\ last' = Caught("mcp", NoSid, outcome, t)
  /\ pend' = IF outcome = "later" THEN pend \cup {Pending(NoSid, t)} ELSE pend
  /\ IF reg
       THEN \E id \in GenIds(unique) :
              /\ objs' = [objs EXCEPT ![t].sessionId = id, ![t].wait = "none"]
              /\ transports' = Put(transports, id, t)
              /\ hist' = NoteRegistered(hist, id, t)
       ELSE /\ objs' = [objs EXCEPT ![t].wait = "none"]
            /\ UNCHANGED <<transports, hist>>
  /\ rm' = << >>
  /\ UNCHANGED <<sd, es>>

\* connect resolved: transport.handleRequest(req, res, req.body) is called
\* with the initialization message.  When the transport accepts it (reg) it
\* draws its session id from sessionIdGenerator and calls
\* onsessioninitialized, which stores it:
\*   transports[sessionId] = transport
\* Whether it does so is the transport's matter: a call that resolves may
\* have answered the request without opening a session, a call that fails
\* may have opened one.
McpInitHandled(unique, t, outcome, reg) ==
  /\ Running
  /\ t \in 1..Len(objs)
  /\ objs[t].kind = "Streamable" /\ objs[t].wait = "connect"
  /\ outcome = "later" => Cardinality(pend) < MaxPending
  /\ last' = Caught("mcp", NoSid, outcome, t)
  /\ pend' = IF outcome = "later" THEN pend \cup {Pending(NoSid, t)} ELSE pend
  /\ IF reg
       THEN \E id \in GenIds(unique) :
              /\ objs' = [objs EXCEPT ![t].sessionId = id, ![t].bound = TRUE,
                                      ![t].wait = "none"]
              /\ transports' = Put(transports, id, t)
              /\ hist' = NoteRegistered(hist, id, t)
       ELSE /\ objs' = [objs EXCEPT ![t].bound = TRUE, ![t].wait = "none"]
            /\ UNCHANGED <<transports, hist>>
  /\ rm' = << >>
  /\ UNCHANGED <<sd, es>>

McpConnectResolved(unique) ==
  \E t \in 1..Len(objs), outcome \in Outcomes, reg \in BOOLEAN :
    McpInitHandled(unique, t, outcome, reg)

\* The promise of a pending transport.handleRequest rejects: the handler
\* resumes in its catch block, in a later turn than the hand-off.  sent is
\* res.headersSent.
McpRejectedOn(p, sent) ==
  /\ Running
  /\ p \in pend
  /\ last' = Caught("catch", p.sid, IF sent THEN "throwSent" ELSE "throw", 0)
  /\ pend' = pend \ {p}
  /\ rm' = << >>
  /\ UNCHANGED <<transports, objs, sd, hist, es>>

McpRejected ==
  \E p \in pend, sent \in BOOLEAN : McpRejectedOn(p, sent)

\* connect rejected: the catch block answers 500.
McpConnectRejected ==
  /\ Running
  /\ \E t \in 1..Len(objs) :
       /\ objs[t].kind = "Streamable" /\ objs[t].wait = "connect"
       /\ objs' = [objs EXCEPT ![t].wait = "none"]
       /\ last' = Answer("mcp", NoSid, 500, "Internal", 0)
  /\ rm' = << >>
  /\ UNCHANGED <<transports, sd, hist, es, pend>>

\* The transport's handling of a DELETE it was handed: it closes itself,
\* and close() calls transport.onclose.
StreamableClose ==
  /\ Running
  /\ \E t \in 1..Len(objs) :
       /\ objs[t].kind = "Streamable" /\ objs[t].del
       /\ objs' = [objs EXCEPT ![t].del = FALSE, ![t].closed = TRUE]
       /\ transports' = OnClose(transports, t)
       /\ rm' = <<Removal("onclose", objs[t].sessionId, transports)>>
       /\ hist' = [hist EXCEPT !.terminated = @ \cup {objs[t].sessionId}]
  /\ last' = NoAnswer
  /\ UNCHANGED <<sd, es, pend>>

----------------------------------------------------------------------------
\* The resumable event store of a Streamable transport

\* append(scope, event) -> sequence number: the event goes to the end of the
\* log under the next sequence number of that log.  from is the transport
\* that sent the event.
StoreAppend(log, from) ==
  Append(log, [seq |-> Len(log) + 1, from |-> from])

\* replayAfter(scope, lastSeen): the events of the log strictly after
\* lastSeen, in log order.
ReplayAfter(log, lastSeen) ==
  SelectSeq(log, LAMBDA e : e.seq > lastSeen)

\* A transport with an open session sends a message on a stream and
\* records it in the store it was constructed with.
StoreEvent ==
  /\ Running
  /\ \E t \in 1..Len(objs) :
       /\ objs[t].kind = "Streamable" /\ objs[t].sessionId # Undefined
       /\ ~objs[t].closed
       /\ Len(es[objs[t].store]) < MaxEvents
       /\ es' = [es EXCEPT ![objs[t].store] = StoreAppend(@, t)]
  /\ last' = NoAnswer
  /\ rm' = << >>
  /\ UNCHANGED <<transports, objs, sd, hist, pend>>

\* A GET on /mcp that resumes a stream: the reuse branch hands it to the
\* session's transport, which replays from its store after lastSeen.
McpReplay(sid, lastSeen) ==
  LET found == Lookup(transports, sid) IN
  /\ Running
  /\ sid # NoSid /\ Truthy(found) /\ IsStreamable(found)
  /\ last' = [Answer("mcp", sid, 0, "", found)
               EXCEPT !.replayed = ReplayAfter(es[objs[found].store], lastSeen)]
  /\ rm' = << >>
  /\ UNCHANGED <<transports, objs, sd, hist, es, pend>>

McpReplayRequest ==
  \E sid \in SidVals, lastSeen \in 0..MaxEvents : McpReplay(sid, lastSeen)

----------------------------------------------------------------------------
\* The deprecated HTTP+SSE transport

\* app.get("/sse"), up to await server.connect(transport).  The
\* SSEServerTransport constructor draws the session id.
SseRequest(unique) ==
  /\ Running
  /\ Len(objs) < MaxSessions
  /\ \E id \in GenIds(unique) :
       LET t == Len(objs) + 1 IN
       /\ objs' = Append(objs, NewSSE(id))
       /\ transports' = Put(transports, id, t)
       /\ hist' = NoteRegistered(hist, id, t)
       /\ last' = Answer("sse", NoSid, 0, "", t)
  /\ rm' = << >>
  /\ UNCHANGED <<sd, es, pend>>

\* await server.connect(transport) of app.get("/sse") resolves.
SseConnectResolved ==
  /\ Running
  /\ \E t \in 1..Len(objs) :
       /\ objs[t].kind = "SSE" /\ objs[t].wait = "connect"
       /\ objs' = [objs EXCEPT ![t].bound = TRUE, ![t].wait = "none"]
  /\ last' = NoAnswer
  /\ rm' = << >>
  /\ UNCHANGED <<transports, sd, hist, es, pend>>

\* Mutant: no listener removes the entry when the connection closes.
SseResCloseKeeps ==
  /\ Running
  /\ \E t \in 1..Len(objs) :
       /\ objs[t].kind = "SSE" /\ objs[t].conn \in {"open", "ended"}
       /\ objs' = [objs EXCEPT ![t].conn = "closed"]
       /\ rm' = <<Removal("resclose", objs[t].sessionId, transports)>>
       /\ hist' = [hist EXCEPT !.terminated = @ \cup {objs[t].sessionId}]
  /\ last' = NoAnswer
  /\ UNCHANGED <<transports, sd, es, pend>>

\* res.on("close", () => { delete transports[transport.sessionId]; })
\* The connection closes once: the client drops it, or the transport's
\* close() has ended the response.
SseResClose ==
  /\ Running
  /\ \E t \in 1..Len(objs) :
       /\ objs[t].kind = "SSE" /\ objs[t].conn \in {"open", "ended"}
       /\ objs' = [objs EXCEPT ![t].conn = "closed"]
       /\ transports' = Delete(transports, objs[t].sessionId)
       /\ rm' = <<Removal("resclose", objs[t].sessionId, transports)>>
       /\ hist' = [hist EXCEPT !.terminated = @ \cup {objs[t].sessionId}]
  /\ last' = NoAnswer
  /\ UNCHANGED <<sd, es, pend>>

\* Mutant: a mismatch evicts the entry the request named.
MessagesHandlerEvicts(sid) ==
  LET found == Lookup(transports, sid) IN
  /\ Running
  /\ last' = IF IsSSE(found)
               THEN Answer("messages", sid, 0, "", found)
               ELSE Answer("messages", sid, 400, "WrongTransport", 0)
  /\ transports' = IF IsSSE(found) THEN transports ELSE Delete(transports, sid)
  /\ rm' = << >>
  /\ UNCHANGED <<objs, sd, hist, es, pend>>

\* app.post("/messages") on one request.
MessagesHandler(sid) ==
  LET found == Lookup(transports, sid) IN
  /\ Running
  /\ last' = IF IsSSE(found)
               THEN Answer("messages", sid, 0, "", found)
               ELSE Answer("messages", sid, 400, "WrongTransport", 0)
  /\ rm' = << >>
  /\ UNCHANGED <<transports, objs, sd, hist, es, pend>>

MessagesRequest ==
  \E sid \in SidVals : MessagesHandler(sid)

----------------------------------------------------------------------------
\* process.on("SIGINT"): the shutdown coordinator

\* Mutant: the loop runs over a copy of the keys (Object.keys), so a key
\* removed before its turn is still visited.
NextIdxAll(reg, keys, i) ==
  IF i > Len(keys) THEN 0 ELSE i

\* for (const sessionId in transports): the keys are those the object has
\* when the loop starts, in insertion order; a key deleted before its turn
\* is skipped, a key added meanwhile is not visited.
RECURSIVE NextIdx(_, _, _)
NextIdx(reg, keys, i) ==
  IF i > Len(keys) THEN 0
  ELSE IF Has(reg, keys[i]) THEN i
  ELSE NextIdx(reg, keys, i + 1)

\* Mutant: the exit status reports a failed close.
DrainFromFailureStatus(reg, keys, i, evs, s, r) ==
  LET j == NextIdx(reg, keys, i) IN
  IF j = 0
    THEN /\ transports' = reg
         /\ objs' = objs
         /\ sd' = [s EXCEPT !.pc = "exited", !.runs[r].i = Len(keys) + 1,
                           !.code = IF s.failed = {} THEN 0 ELSE 1]
         /\ rm' = evs
    ELSE LET t == Lookup(reg, keys[j]) IN
         \E ok \in BOOLEAN :
           LET runs == ok /\ objs[t].kind = "Streamable" IN
           /\ t = Undefined => ~ok
           /\ transports' = IF runs THEN OnClose(reg, t) ELSE reg
           /\ objs' = IF t = Undefined THEN objs
                      ELSE [objs EXCEPT ![t].closed = TRUE,
                                        ![t].conn = IF ok /\ @ = "open" THEN "ended" ELSE @]
           /\ sd' = [s EXCEPT !.pc = "awaitClose", !.runs[r].i = j, !.runs[r].ok = ok,
                              !.tried = @ \cup {t},
                              !.failed = IF ok THEN @ ELSE @ \cup {t}]
           /\ rm' = IF runs
                      THEN Append(evs, Removal("onclose", objs[t].sessionId, reg))
                      ELSE evs

\* One run of the handler, from position i of its loop up to its next
\* await, or to process.exit(0).  r is the run, reg and evs are the registry
\* and the removals of this step so far.  close() either runs to its end
\* (ok) or throws before it has done anything; a Streamable transport's
\* close() calls onclose, an SSE transport's close() ends the response.  A
\* call of close on undefined throws, which the catch block absorbs.
DrainFrom(reg, keys, i, evs, s, r) ==
  LET j == NextIdx(reg, keys, i) IN
  IF j = 0
    THEN /\ transports' = reg
         /\ objs' = objs
         /\ sd' = [s EXCEPT !.pc = "exited", !.runs[r].i = Len(keys) + 1, !.code = 0]
         /\ rm' = evs
    ELSE LET t == Lookup(reg, keys[j]) IN
         \E ok \in BOOLEAN :
           LET runs == ok /\ objs[t].kind = "Streamable" IN
           /\ t = Undefined => ~ok
           /\ transports' = IF runs THEN OnClose(reg, t) ELSE reg
           /\ objs' = IF t = Undefined THEN objs
                      ELSE [objs EXCEPT ![t].closed = TRUE,
                                        ![t].conn = IF ok /\ @ = "open" THEN "ended" ELSE @]
           /\ sd' = [s EXCEPT !.pc = "awaitClose", !.runs[r].i = j, !.runs[r].ok = ok,
                              !.tried = @ \cup {t},
                              !.failed = IF ok THEN @ ELSE @ \cup {t}]
           /\ rm' = IF runs
                      THEN Append(evs, Removal("onclose", objs[t].sessionId, reg))
                      ELSE evs

\* A run of the handler that has just started: the keys of its loop.
NewRun(keys) ==
  [keys |-> keys, i |-> 0, ok |-> TRUE]

\* A signal arrives.  The listener has no guard: every signal starts a run
\* of the handler, also while an earlier run awaits a close.
Sigint ==
  /\ Running
  /\ Len(sd.runs) < MaxSignals
  /\ DrainFrom(transports, KeySeq(transports), 1, << >>,
               [sd EXCEPT !.runs = Append(@, NewRun(KeySeq(transports))),
                          !.snap = IF sd.runs = << >>
                                     THEN {transports[n].t : n \in 1..Len(transports)}
                                     ELSE @],
               Len(sd.runs) + 1)
  /\ last' = NoAnswer
  /\ UNCHANGED <<hist, es, pend>>

\* Mutant: a rejected close ends the loop.
DrainResumeAborts ==
  /\ sd.pc = "awaitClose" /\ Idle
  /\ \E r \in 1..Len(sd.runs) :
       LET run == sd.runs[r]
           k == run.keys[run.i] IN
       IF run.ok
         THEN DrainFrom(Delete(transports, k), run.keys, run.i + 1,
                        <<Removal("shutdown", k, transports)>>, sd, r)
         ELSE DrainFrom(transports, run.keys, Len(run.keys) + 1, << >>, sd, r)
  /\ last' = NoAnswer
  /\ UNCHANGED <<hist, es, pend>>

\* await transports[sessionId].close() of one run settles: delete
\* transports[sessionId] when it resolved, the catch block when it rejected;
\* then the loop of that run goes on.
DrainResume ==
  /\ sd.pc = "awaitClose" /\ Idle
  /\ \E r \in 1..Len(sd.runs) :
       LET run == sd.runs[r]
           k == run.keys[run.i] IN
       IF run.ok
         THEN DrainFrom(Delete(transports, k), run.keys, run.i + 1,
                        <<Removal("shutdown", k, transports)>>, sd, r)
         ELSE DrainFrom(transports, run.keys, run.i + 1, << >>, sd, r)
  /\ last' = NoAnswer
  /\ UNCHANGED <<hist, es, pend>>

\* The turn ends: last and rm describe one step only.
TurnEnds ==
  /\ ~Idle
  /\ last' = NoAnswer
  /\ rm' = << >>
  /\ UNCHANGED <<transports, objs, sd, hist, es, pend>>

----------------------------------------------------------------------------
\* Session ids are unique: randomUUID never returns an id twice.
Next ==
  \/ McpRequest
  \/ McpConnectResolved(TRUE)
  \/ McpConnectRejected
  \/ McpRejected
  \/ StreamableClose
  \/ SseRequest(TRUE)
  \/ SseConnectResolved
  \/ SseResClose
  \/ MessagesRequest
  \/ Sigint
  \/ DrainResume
  \/ TurnEnds

Spec ==
  Init /\ [][Next]_vars

\* The id generator may return an id that is already registered.
NextCollide ==
  \/ McpRequest
  \/ McpConnectResolved(FALSE)
  \/ McpConnectRejected
  \/ McpRejected
  \/ StreamableClose
  \/ SseRequest(FALSE)
  \/ SseConnectResolved
  \/ SseResClose
  \/ MessagesRequest
  \/ Sigint
  \/ DrainResume
  \/ TurnEnds

SpecCollide ==
  Init /\ [][NextCollide]_vars

\* The Streamable endpoint with its event stores.
NextStore ==
  \/ McpRequest
  \/ McpConnectResolved(TRUE)
  \/ McpConnectRejected
  \/ McpRejected
  \/ StreamableClose
  \/ StoreEvent
  \/ McpReplayRequest
  \/ TurnEnds

SpecStore ==
  Init /\ [][NextStore]_vars

\* The event loop runs every callback that is queued: the continuation of
\* the shutdown handler runs once the close it awaits has settled, however
\* many requests arrive meanwhile, and every turn ends.
SpecFair ==
  Spec /\ SF_vars(DrainResume) /\ WF_vars(TurnEnds)

----------------------------------------------------------------------------
\* The claims

\* C1: a request is handed only to a transport of the endpoint's own
\* family: /mcp hands requests to Streamable transports only and /messages
\* to LegacySSE transports only; a request on /mcp whose session id maps to
\* a LegacySSE entry, and a request on /messages whose session id maps to a
\* Streamable entry, is answered 400 WrongTransportForSession and handed to
\* no transport.
C1_OwnFamilyOnly ==
  /\ (last.ep = "mcp" /\ last.to # 0 => objs[last.to].kind = "Streamable")
  /\ (last.ep = "messages" /\ last.to # 0 => objs[last.to].kind = "SSE")
  /\ \A n \in 1..Len(transports) :
       ( \/ (last.ep = "mcp" /\ objs[transports[n].t].kind = "SSE")
         \/ (last.ep = "messages" /\ objs[transports[n].t].kind = "Streamable") )
       /\ last.sid = transports[n].id
       => last.status = 400 /\ last.error = "WrongTransport" /\ last.to = 0

\* C1 witness: a request on /mcp named a registered LegacySSE session and
\* was rejected.
C1_Witness ==
  /\ last.ep = "mcp" /\ last.status = 400 /\ last.error = "WrongTransport"
  /\ \E n \in 1..Len(transports) :
       transports[n].id = last.sid /\ objs[transports[n].t].kind = "SSE"

\* C2: an initialization POST to /mcp without session id and with a
\* non-empty token constructs one Streamable transport and leaves the
\* registry alone until its handling succeeds; the step in which the
\* transport opens the session and the handling succeeds appends exactly
\* one entry, keyed by the new session id, which was no key before, holding
\* that transport, and keeps every other entry; a call that resolves
\* without opening a session leaves the registry as it was.
C2_InitAddsOneEntry ==
  [][ /\ \A token \in TokenVals \ {"absent", "empty"} :
           McpHandler("POST", NoSid, TRUE, token)
           => transports' = transports /\ objs' = Append(objs, NewStreamable(NewEventStore(es)))
      /\ \A t \in 1..Len(objs) :
           /\ ( McpInitHandled(TRUE, t, "ok", TRUE)
                => /\ last'.to = t /\ last'.status = 0
                   /\ objs[t].kind = "Streamable"
                   /\ objs[t].sessionId = Undefined
                   /\ \E id \in Uuids :
                        /\ \A n \in 1..Len(transports) : transports[n].id # id
                        /\ objs'[t].sessionId = id
                        /\ transports' = Append(transports, [id |-> id, t |-> t]) )
           /\ ( McpInitHandled(TRUE, t, "ok", FALSE)
                => transports' = transports )
    ]_vars

\* C2 witness: an initialization has just succeeded while another session
\* was registered, and the new transport is registered under its id.
C2_Witness ==
  /\ last.ep = "mcp" /\ last.sid = NoSid /\ last.to # 0
  /\ last.status = 0 /\ last.error = ""
  /\ Len(transports) >= 2
  /\ transports[Len(transports)] =
       [id |-> objs[last.to].sessionId, t |-> last.to]

\* C3: an initialization POST to /mcp without session id and without a
\* token (absent or empty) is answered 400 MissingToken; no transport is
\* constructed and the registry is unchanged.
C3_MissingTokenRejected ==
  [][ \A token \in {"absent", "empty"} :
        McpHandler("POST", NoSid, TRUE, token)
        => /\ last' = Answer("mcp", NoSid, 400, "MissingToken", 0)
           /\ objs' = objs
           /\ transports' = transports
    ]_vars

\* C3 witness: a request was rejected for its missing token while a session
\* was registered.
C3_Witness ==
  last.ep = "mcp" /\ last.error = "MissingToken" /\ last.status = 400
    /\ Len(transports) >= 1

\* C4: every registry entry holds the transport that was first registered
\* under its id, every request on /mcp that names a registered Streamable
\* session is handed to that transport, and no two transports ever carry
\* the same session id.
C4_SameTransportReused ==
  /\ \A n \in 1..Len(transports) :
       hist.first[transports[n].id] = transports[n].t
  /\ \A n \in 1..Len(transports) :
       last.ep = "mcp" /\ last.sid = transports[n].id
         /\ objs[transports[n].t].kind = "Streamable"
       => last.to = hist.first[last.sid]
  /\ \A a, b \in 1..Len(objs) :
       a # b /\ objs[a].sessionId = objs[b].sessionId
       => objs[a].sessionId = Undefined

\* C4 witness: a request naming a registered Streamable session was handed
\* to the transport registered at initialization while a DELETE for the
\* same session was still in flight and another session existed.
C4_Witness ==
  /\ last.ep = "mcp" /\ last.sid \in Uuids /\ last.to # 0
  /\ last.to = hist.first[last.sid]
  /\ objs[last.to].del
  /\ Len(objs) >= 2

\* C5: a POST to /messages whose sessionId is missing or is no key of the
\* registry is answered 400, is handed to no transport and leaves the
\* registry and the transports unchanged.
C5_UnknownLegacyIdRejected ==
  [][ \A sid \in SidVals :
        (\A n \in 1..Len(transports) : transports[n].id # sid)
        /\ MessagesHandler(sid)
        => /\ last'.status = 400 /\ last'.to = 0
           /\ transports' = transports
           /\ objs' = objs
    ]_vars

\* C5 witness: a POST to /messages named an id that is no key while a
\* LegacySSE session was registered, and was rejected.
C5_Witness ==
  /\ last.ep = "messages" /\ last.status = 400 /\ last.sid \in Uuids
  /\ \A n \in 1..Len(transports) : transports[n].id # last.sid
  /\ \E n \in 1..Len(transports) : objs[transports[n].t].kind = "SSE"

\* C6: when the process exits after a termination signal, every transport
\* that was registered when the signal arrived has received a close call
\* and the registry is empty.
C6_DrainClosesAllAndEmpties ==
  sd.pc = "exited"
  => /\ \A t \in sd.snap : objs[t].closed
     /\ transports = << >>

\* C7 as stated: once a close has failed during the drain, every transport
\* that was registered when the signal arrived has still received a close
\* call when the process exits.
C7_EveryOtherCloseAttempted ==
  sd.pc = "exited" /\ sd.failed # {}
  => \A t \in sd.snap : objs[t].closed

\* C7 amended: a failing close does not abort the drain: every key a run of
\* the loop has passed had close attempted on its transport, or its session
\* was removed by a client termination (and so was skipped); at exit a run
\* has passed every key of its key set, and every transport registered at
\* the first signal had close attempted or was so removed, however many
\* closes failed.
C7_FailureDoesNotAbortDrain ==
  /\ \A r \in 1..Len(sd.runs) :
       \A p \in 1..Len(sd.runs[r].keys) :
         p < sd.runs[r].i => \/ hist.first[sd.runs[r].keys[p]] \in sd.tried
                             \/ sd.runs[r].keys[p] \in hist.terminated
  /\ ( sd.pc = "exited"
       => /\ \E r \in 1..Len(sd.runs) : sd.runs[r].i = Len(sd.runs[r].keys) + 1
          /\ \A t \in sd.snap :
               t \in sd.tried \/ objs[t].sessionId \in hist.terminated )

\* C7 witness: the process has exited after a drain in which a close failed
\* and close was attempted on a transport later in the iteration order.
C7_Witness ==
  /\ sd.pc = "exited"
  /\ \E r \in 1..Len(sd.runs) :
       \E p, q \in 1..Len(sd.runs[r].keys) :
         /\ p < q
         /\ hist.first[sd.runs[r].keys[p]] \in sd.failed
         /\ hist.first[sd.runs[r].keys[q]] \in sd.tried

\* C8: a session id whose session a client has terminated (the DELETE was
\* handled, or the legacy connection closed) is no key of the registry, and
\* every request on /mcp or /messages that carries it afterwards is
\* answered 400 and handed to no transport.
C8_TerminatedSessionRejected ==
  [][ /\ \A id \in hist'.terminated :
           \A n \in 1..Len(transports') : transports'[n].id # id
      /\ ( last'.ep \in {"mcp", "messages"} /\ last'.sid \in hist.terminated
           => last'.status = 400 /\ last'.to = 0 )
    ]_vars

\* C8 witness: a request on /mcp carrying the id of a terminated Streamable
\* session has just been rejected.
C8_Witness ==
  /\ last.ep = "mcp" /\ last.sid \in hist.terminated
  /\ last.status = 400 /\ last.error = "InvalidSession"
  /\ \E t \in 1..Len(objs) :
       objs[t].kind = "Streamable" /\ objs[t].sessionId = last.sid

\* C9: no step replaces the transport registered under an id: an insert
\* under an id that is already a key leaves the existing entry in place.
C9_FirstWriterWins ==
  [][ \A n \in 1..Len(transports) :
        \A m \in 1..Len(transports') :
          transports'[m].id = transports[n].id
          => transports'[m].t = transports[n].t
    ]_vars

\* C10: a removal of an id that is no longer a key (the second of two
\* removals of the same id, by whichever paths) leaves every entry in
\* place; after any removal step the removed ids are no keys and all other
\* entries are unchanged and in order.
C10_RemovalIdempotent ==
  [][ rm' # << >>
      => LET ids == {rm'[n].id : n \in 1..Len(rm')} IN
         /\ transports' = SelectSeq(transports, LAMBDA e : e.id \notin ids)
         /\ ( (\A n \in 1..Len(rm') : ~rm'[n].present)
              => transports' = transports )
    ]_vars

\* C10 witness: the shutdown coordinator has just deleted an id that a
\* close callback or connection-close handler had already removed, while
\* another session was registered.
C10_Witness ==
  /\ Len(transports) >= 1
  /\ \E n \in 1..Len(rm) : rm[n].path = "shutdown" /\ ~rm[n].present

\* C11: a failure raised while a request on /mcp is handled (connect
\* rejects, or handleRequest rejects, in the turn of the call or in a later
\* one) is caught: when no response has been started the request is
\* answered once, 500 with the internal-error envelope; when the response
\* has been started nothing is written; in both cases every entry of the
\* registry stays as it was and the process keeps running.
C11_FailureCaught ==
  [][ /\ \A method \in Methods, sid \in SidVals, outcome \in {"throw", "throwSent"} :
           Running /\ McpReuseOn(method, sid, outcome) /\ last'.to # 0
           => /\ last'.status = (IF outcome = "throw" THEN 500 ELSE 0)
              /\ last'.error = (IF outcome = "throw" THEN "Internal" ELSE "Absorbed")
              /\ transports' = transports /\ sd' = sd
      /\ \A t \in 1..Len(objs), outcome \in {"throw", "throwSent"}, reg \in BOOLEAN :
           McpInitHandled(TRUE, t, outcome, reg)
           => /\ last'.status = (IF outcome = "throw" THEN 500 ELSE 0)
              /\ last'.error = (IF outcome = "throw" THEN "Internal" ELSE "Absorbed")
              /\ SubSeq(transports', 1, Len(transports)) = transports
              /\ sd' = sd
      /\ ( McpConnectRejected
           => /\ last'.status = 500 /\ last'.error = "Internal"
              /\ transports' = transports /\ sd' = sd )
      /\ \A p \in pend, sent \in BOOLEAN :
           McpRejectedOn(p, sent)
           => /\ last'.sid = p.sid
              /\ last'.status = (IF sent THEN 0 ELSE 500)
              /\ last'.error = (IF sent THEN "Absorbed" ELSE "Internal")
              /\ transports' = transports /\ objs' = objs /\ sd' = sd
    ]_vars

\* C11 witness: a handleRequest that was pending has rejected and the
\* request was answered 500, after the session it named was removed and
\* while another session was registered.
C11_Witness ==
  /\ last.ep = "catch" /\ last.status = 500 /\ last.error = "Internal"
  /\ last.sid \in Uuids /\ ~Has(transports, last.sid)
  /\ Len(transports) >= 1

\* C12: a request the router rejects by classification (MissingToken,
\* WrongTransportForSession, InvalidSession; on /mcp or /messages) is
\* answered once, 400 with the error envelope, and changes nothing else:
\* the registry, the transports and the shutdown state are as before.
C12_RejectionChangesNothing ==
  [][ last'.error \in {"MissingToken", "WrongTransport", "InvalidSession"}
      => /\ last'.status = 400 /\ last'.to = 0
         /\ last'.ep \in {"mcp", "messages"}
         /\ transports' = transports
         /\ objs' = objs
         /\ sd' = sd
         /\ hist' = hist
    ]_vars

\* C12 witness: a request on /messages that named a registered Streamable
\* session has just been rejected, and the entry is still there.
C12_Witness ==
  /\ last.ep = "messages" /\ last.status = 400 /\ last.error = "WrongTransport"
  /\ \E n \in 1..Len(transports) :
       transports[n].id = last.sid /\ objs[transports[n].t].kind = "Streamable"

\* C13: a request on /mcp whose session id is no key of the registry starts
\* a session only when it carries no id, its verb is POST and its body is
\* an initialization; every other such request is answered 400
\* InvalidSession.
C13_UnresolvedIdInvalidSession ==
  [][ \A method \in Methods, sid \in SidVals, init \in BOOLEAN, token \in TokenVals :
        McpHandler(method, sid, init, token) /\ ~Has(transports, sid)
        => IF sid = NoSid /\ method = "POST" /\ init
             THEN last'.error \in {"", "MissingToken"}
             ELSE /\ last'.status = 400 /\ last'.error = "InvalidSession"
                  /\ objs' = objs
    ]_vars

\* C14: every GET on /sse constructs a new LegacySSE transport with an id
\* no earlier session had and registers it under that id, whatever the
\* request carries (the handler reads nothing of the request); the entry
\* stays in the registry, with the same transport, for as long as the
\* connection is open, and it is gone once the connection has closed.
C14_SseRegisteredUntilClose ==
  [][ /\ ( SseRequest(TRUE)
           => LET t == Len(objs) + 1 IN
              /\ Len(objs') = t /\ objs'[t].kind = "SSE"
              /\ objs'[t].sessionId \in Uuids \ hist.issued
              /\ ~Has(transports, objs'[t].sessionId)
              /\ Len(transports') = Len(transports) + 1
              /\ Lookup(transports', objs'[t].sessionId) = t
              /\ last'.status = 0 /\ last'.to = t )
      /\ \A n \in 1..Len(transports) :
           LET e == transports[n] IN
           objs[e.t].kind = "SSE"
           => /\ objs[e.t].conn = "open" /\ objs'[e.t].conn = "open"
                 => Lookup(transports', e.id) = e.t
              /\ objs'[e.t].conn = "closed" => ~Has(transports', e.id)
    ]_vars

\* C14 witness: the connection of a registered LegacySSE session has just
\* closed and its entry was removed.
C14_Witness ==
  /\ Len(rm) = 1 /\ rm[1].path = "resclose" /\ rm[1].present
  /\ ~Has(transports, rm[1].id)
  /\ \E t \in 1..Len(objs) :
       objs[t].kind = "SSE" /\ objs[t].sessionId = rm[1].id /\ objs[t].conn = "closed"

\* C15: once the termination signal has arrived the process eventually
\* exits, and its exit status is 0, whether the closes resolved or rejected.
C15_EventuallyExitsZero ==
  (sd.pc # "running") ~> (sd.pc = "exited" /\ sd.code = 0)

\* C15 witness: the process has exited with status 0 after a drain in which
\* one close resolved and another rejected.
C15_Witness ==
  /\ sd.pc = "exited" /\ sd.code = 0
  /\ sd.failed # {} /\ sd.tried \ sd.failed # {}

\* C16: a stream of a Streamable session that resumes after a last-seen
\* sequence number is sent exactly the events appended to that session's
\* store after that number: each of them once, in append order, and no
\* event that another session's transport sent.
C16_ReplayExactlyLaterEvents ==
  [][ \A sid \in SidVals, lastSeen \in 0..MaxEvents :
        McpReplay(sid, lastSeen)
        => LET t == Lookup(transports, sid)
               log == es[objs[t].store]
               r == last'.replayed
           IN /\ \A i \in 1..Len(r) :
                   /\ r[i].seq > lastSeen
                   /\ r[i].from = t
                   /\ \E j \in 1..Len(log) : log[j] = r[i]
              /\ \A j \in 1..Len(log) :
                   log[j].seq > lastSeen
                   => Cardinality({i \in 1..Len(r) : r[i] = log[j]}) = 1
              /\ \A i, k \in 1..Len(r) :
                   i < k => \E j, l \in 1..Len(log) :
                              j < l /\ log[j] = r[i] /\ log[l] = r[k]
    ]_vars

\* C16 witness: a resumed stream was sent two events, not the whole log,
\* while another session's store held events too.
C16_Witness ==
  /\ last.to # 0 /\ Len(last.replayed) = 2
  /\ Len(es[objs[last.to].store]) = 3
  /\ \E s \in 1..Len(es) : s # objs[last.to].store /\ es[s] # << >>

\* C17: binding completes before a message is handed to a new transport:
\* the transport that is handed the initialization on /mcp is bound, every
\* Streamable transport the registry resolves is bound, and a request that
\* names a session id a client has been told is handed to a bound transport
\* (a LegacySSE transport is registered before its binding completes, but
\* its id is told to the client only by the binding).
C17_BoundBeforeMessages ==
  /\ ( last.ep = "mcp" /\ last.to # 0 => objs[last.to].bound )
  /\ ( last.ep = "messages" /\ last.to # 0 /\ Told(objs[last.to])
       => objs[last.to].bound )
  /\ \A n \in 1..Len(transports) :
       LET o == objs[transports[n].t] IN
       /\ o.kind = "Streamable" => o.bound
       /\ ~o.bound => ~Told(o)

\* C17 witness: a message was handed to a bound LegacySSE transport while
\* another registered transport was still waiting for its binding.
C17_Witness ==
  /\ last.ep = "messages" /\ last.to # 0 /\ objs[last.to].bound
  /\ \E n \in 1..Len(transports) : ~objs[transports[n].t].bound

\* C18: the drain is safe against removals made while it awaits a close:
\* every close it calls is on a key the registry holds at that moment (never
\* on an undefined entry), and when a run of the handler reaches the end of
\* its loop and exits the process, every key of that run's key set that is
\* still registered has had its close attempted.
C18_DrainSafeAgainstRemoval ==
  [][ \A r \in 1..Len(sd'.runs) :
        LET run == sd'.runs[r] IN
        /\ ( /\ sd'.pc = "awaitClose"
             /\ (r > Len(sd.runs) \/ run.i # sd.runs[r].i)
             => /\ Has(transports, run.keys[run.i])
                /\ Lookup(transports, run.keys[run.i]) \in 1..Len(objs)
                /\ Lookup(transports, run.keys[run.i]) \in sd'.tried )
        /\ ( sd'.pc = "exited" /\ run.i = Len(run.keys) + 1
             => \A n \in 1..Len(run.keys) :
                  Has(transports', run.keys[n])
                  => Lookup(transports', run.keys[n]) \in sd'.tried )
    ]_vars

\* C18 witness: the process has exited after a drain of two sessions in
\* which the close of the first rejected, a client closed that session
\* while the drain was suspended, and the second was closed all the same.
C18_Witness ==
  /\ sd.pc = "exited"
  /\ \E r \in 1..Len(sd.runs) :
       LET keys == sd.runs[r].keys IN
       /\ Len(keys) = 2
       /\ keys[1] \in hist.terminated /\ ~Has(transports, keys[1])
       /\ hist.first[keys[1]] \in sd.failed
       /\ hist.first[keys[2]] \in sd.tried

\* C19: a request that resumes a session is handed over in the step that
\* looked its id up: the transport it is handed to is the registry's entry
\* for that id when the step starts, and the step replaces nothing and
\* removes nothing but, when that transport closes itself inside the call,
\* its own entry, whatever other handlers are suspended meanwhile.
C19_LookupAndHandOffAtomic ==
  [][ last'.ep \in {"mcp", "messages"} /\ last'.sid # NoSid /\ last'.to # 0
      => /\ last'.to = Lookup(transports, last'.sid)
         /\ \/ /\ transports' = transports
               /\ rm' = << >>
            \/ /\ transports' = Delete(transports, last'.sid)
               /\ rm' = <<Removal("onclose", last'.sid, transports)>>
               /\ objs'[last'.to].closed
    ]_vars

\* C19 witness: a request was handed to the transport registered under its
\* id while the shutdown handler was suspended on the close of that very
\* transport.
C19_Witness ==
  /\ last.sid \in Uuids /\ last.to # 0
  /\ sd.pc = "awaitClose"
  /\ \E r \in 1..Len(sd.runs) :
       /\ sd.runs[r].i \in 1..Len(sd.runs[r].keys)
       /\ sd.runs[r].keys[sd.runs[r].i] = last.sid
  /\ Lookup(transports, last.sid) = last.to

\* C20: every registry key is the session id of the transport stored
\* under it, no transport is stored under two keys, and an entry leaves the
\* registry only in a step in which its own transport is closed (by its
\* close callback, by the close of its connection, or by the drain after
\* its close).
C20_KeysAreOwnIds ==
  [][ /\ \A n \in 1..Len(transports') :
           objs'[transports'[n].t].sessionId = transports'[n].id
      /\ \A n, m \in 1..Len(transports') :
           n # m => transports'[n].t # transports'[m].t
      /\ \A n \in 1..Len(transports) :
           ~Has(transports', transports[n].id)
           => LET o == objs'[transports[n].t] IN
              o.sessionId = transports[n].id /\ (o.closed \/ o.conn = "closed")
    ]_vars

\* C20 witness: the close callback of one Streamable transport has just
\* removed its entry while another session stays registered.
C20_Witness ==
  /\ Len(rm) = 1 /\ rm[1].path = "onclose" /\ rm[1].present
  /\ ~Has(transports, rm[1].id)
  /\ Len(transports) >= 1

====
